---------------------------- MODULE Spec2Model ----------------------------
(***************************************************************************)
(* Model of the notebook TZYX_fast_sequencing_z_indexing.ipynb: the        *)
(* triangle-waveform position sequence built by upload_piezo_sequence, the *)
(* event list built by the "Generate events" cell, and the run of the      *)
(* notebook's cells against the bridge, the z stage and the acquisition    *)
(* engine.                                                                 *)
(*                                                                         *)
(* Positions are exact multiples of a quantum of 0.25 (the notebook's      *)
(* step_size), written as integers: -2.5 is -10, 2.5 is 10, 0.25 is 1.     *)
(* All the values the notebook computes with its documented parameters are *)
(* multiples of 0.25 and exact in binary floating point, so the integer    *)
(* arithmetic below is the arithmetic numpy performs on them.              *)
(***************************************************************************)
EXTENDS Integers, Sequences, FiniteSets, TLC

VARIABLES
    pc,               \* the cell (or call inside a cell) the run is about to execute
    start_end_pos,    \* z stack parameter
    mid_pos,          \* z stack parameter
    step_size,        \* z stack parameter
    relative,         \* z stack parameter
    duration,         \* time series parameter (seconds)
    framerate,        \* time series parameter
    num_z_positions,  \* notebook global; reassigned after the upload
    z_idx,            \* list(range(num_z_positions))
    num_time_points,  \* ceil(duration * framerate / num_z_positions)
    z_pos,            \* first value returned by upload_piezo_sequence
    pos_sequence,     \* second value returned by upload_piezo_sequence
    events,           \* the event list
    z_idx_,           \* working copy of z_idx, reversed after every time point
    i,                \* loop variable of the event generation loop
    bridge,           \* the bridge session: "none", "open" or "closed"
    acq,              \* the Acquisition context: "none", "open" or "closed"
    stagePos,         \* position of the z stage
    initPos,          \* position the z stage had before the run (never assigned)
    useSequence,      \* z stage property "UseSequence"
    useFastSequence,  \* z stage property "UseFastSequence"
    stageSequence,    \* sequence held by the stage firmware
    frames,           \* stage position at which each event's frame was captured
    fn_z_pos,         \* upload_piezo_sequence's local z_pos
    fn_pos_sequence   \* upload_piezo_sequence's local pos_sequence

vars == <<pc, start_end_pos, mid_pos, step_size, relative, duration, framerate,
          num_z_positions, z_idx, num_time_points, z_pos, pos_sequence, events,
          z_idx_, i, bridge, acq, stagePos, initPos, useSequence,
          useFastSequence, stageSequence, frames, fn_z_pos, fn_pos_sequence>>

----------------------------------------------------------------------------
(* Bounds of the inputs explored besides the notebook's own parameters.    *)
MaxPos == 3
MaxStep == 2
MaxDuration == 2
MaxFramerate == 3
MaxStagePos == 1
MaxZLen == 3
MaxZValue == 2
MaxTimePoints == 4

(* The parameters the notebook sets, in quanta of 0.25.                    *)
NotebookStartEndPos == -10
NotebookMidPos == 10
NotebookStepSize == 1
NotebookDuration == 2
NotebookFramerate == 200

----------------------------------------------------------------------------
(* Arithmetic helpers.                                                     *)
Abs(x) == IF x < 0 THEN -x ELSE x

\* ceil(a / b) for b > 0
CeilDiv(a, b) == -((-a) \div b)

\* len(np.arange(start, stop, step)) = max(0, ceil((stop - start) / step))
ArangeLen(start, stop, step) ==
    LET n == IF step > 0 THEN CeilDiv(stop - start, step)
                         ELSE CeilDiv(start - stop, -step)
    IN  IF n > 0 THEN n ELSE 0

\* np.arange(start, stop, step): start + k * step for k = 0 .. len - 1
Arange(start, stop, step) ==
    [k \in 1..ArangeLen(start, stop, step) |-> start + (k - 1) * step]

\* a reverse that leaves the list as it is
ReverseNothing(s) == s

\* list.reverse()
Reverse(s) == [k \in 1..Len(s) |-> s[Len(s) + 1 - k]]


----------------------------------------------------------------------------
(* upload_piezo_sequence: the position sequence.                           *)

\* a waveform whose descending run starts one step below mid_pos
PosSequenceSingleTurn(s, m, d) ==
    Arange(s, m + d, d) \o Arange(m - d, s - d, -d)

\* a waveform without its descending run
PosSequenceSawtooth(s, m, d) == Arange(s, m + d, d)

\* np.hstack((np.arange(start_end_pos, mid_pos + step_size, step_size),
\*            np.arange(mid_pos, start_end_pos - step_size, -step_size)))
PosSequence(s, m, d) ==
    Arange(s, m + d, d) \o Arange(m, s - d, -d)

\* an offset added to the ascending run only
OffsetAscendingOnly(seq, p) ==
    [k \in 1..Len(seq) |-> IF 2 * k <= Len(seq) THEN seq[k] + p ELSE seq[k]]

\* pos_sequence += z_pos
Offset(seq, p) == [k \in 1..Len(seq) |-> seq[k] + p]

\* int(abs(mid_pos - start_end_pos) / step_size + 1)
NumZPositions(s, m, d) == Abs(m - s) \div d + 1

\* np.ceil(duration * framerate / num_z_positions).astype(np.int)
NumTimePoints(dur, rate, nz) == CeilDiv(dur * rate, nz)

\* list(range(num_z_positions))
Range(n) == [k \in 1..n |-> k - 1]

----------------------------------------------------------------------------
(* The "Generate events" cell: the events one time point appends.          *)

\* a block that misses the last z index
EventBlockShort(t, zs) ==
    [k \in 1..(IF Len(zs) > 0 THEN Len(zs) - 1 ELSE 0) |->
        [axes |-> [time |-> t, z |-> zs[k]]]]

\* for j in z_idx_: events.append({"axes": {"time": i, "z": j}})
EventBlock(t, zs) ==
    [k \in 1..Len(zs) |-> [axes |-> [time |-> t, z |-> zs[k]]]]

----------------------------------------------------------------------------
(* The z stage in "Fast Sequencing" mode: one position per trigger, in     *)
(* the order uploaded, wrapping to the first position after the last.      *)
Playback(seq, n) ==
    [k \in 1..n |-> seq[((k - 1) % Len(seq)) + 1]]

----------------------------------------------------------------------------
(* Initial states: the notebook before its first cell runs.  The           *)
(* parameters are those of the notebook or are drawn from small ranges.    *)
Unset == <<>>

ParamSets ==
    {<<s, m, d, dur, rate>> :
        s \in -MaxPos..MaxPos, m \in -MaxPos..MaxPos, d \in 1..MaxStep,
        dur \in 0..MaxDuration, rate \in 1..MaxFramerate}
    \cup {<<NotebookStartEndPos, NotebookMidPos, NotebookStepSize,
            NotebookDuration, NotebookFramerate>>}

Init ==
    /\ pc = "construct"
    /\ \E p \in ParamSets :
          /\ start_end_pos = p[1]
          /\ mid_pos = p[2]
          /\ step_size = p[3]
          /\ duration = p[4]
          /\ framerate = p[5]
    /\ relative \in BOOLEAN
    /\ initPos \in -MaxStagePos..MaxStagePos
    /\ stagePos = initPos
    /\ num_z_positions = 0
    /\ z_idx = Unset
    /\ num_time_points = 0
    /\ z_pos = 0
    /\ pos_sequence = Unset
    /\ events = Unset
    /\ z_idx_ = Unset
    /\ i = 0
    /\ bridge = "none"
    /\ acq = "none"
    /\ useSequence = "No"
    /\ useFastSequence = "No"
    /\ stageSequence = Unset
    /\ frames = Unset
    /\ fn_z_pos = 0
    /\ fn_pos_sequence = Unset

params == <<start_end_pos, mid_pos, step_size, relative, duration, framerate>>
stage == <<stagePos, useSequence, useFastSequence, stageSequence>>
evgen == <<events, z_idx_, i>>
locals == <<fn_z_pos, fn_pos_sequence>>

----------------------------------------------------------------------------
(* The cells, in notebook order.                                           *)

\* bridge = Bridge(); mmc = bridge.get_core(); mmStudio = bridge.get_studio()
ConstructBridge ==
    /\ pc = "construct"
    /\ bridge' = "open"
    /\ pc' = "params"
    /\ UNCHANGED <<params, num_z_positions, z_idx, num_time_points, z_pos,
                   pos_sequence, evgen, acq, stage, initPos, frames,
                   locals>>

\* "Set acquisition parameters"
SetParameters ==
    /\ pc = "params"
    /\ num_z_positions' = NumZPositions(start_end_pos, mid_pos, step_size)
    /\ z_idx' = Range(num_z_positions')
    /\ num_time_points' = NumTimePoints(duration, framerate, num_z_positions')
    /\ pc' = "camera"
    /\ UNCHANGED <<params, z_pos, pos_sequence, evgen, bridge, acq, stage,
                   initPos, frames,
                   locals>>

\* mmc.set_exposure(...); mmc.set_roi(...); mmc.set_property("Camera", ...)
SetupCamera ==
    /\ pc = "camera"
    /\ pc' = "upload"
    /\ UNCHANGED <<params, num_z_positions, z_idx, num_time_points, z_pos,
                   pos_sequence, evgen, bridge, acq, stage, initPos, frames,
                   locals>>

\* upload_piezo_sequence, lines 83-102: mmc, z_stage, the local pos_sequence,
\* the local z_pos (get_position in relative mode), the DoubleVector
UploadCompute ==
    /\ pc = "upload"
    /\ fn_z_pos' = IF relative THEN stagePos ELSE 0
    /\ fn_pos_sequence' =
          IF relative
          THEN Offset(PosSequence(start_end_pos, mid_pos, step_size), fn_z_pos')
          ELSE PosSequence(start_end_pos, mid_pos, step_size)
    /\ pc' = "upload_use_sequence"
    /\ UNCHANGED <<params, num_z_positions, z_idx, num_time_points, z_pos,
                   pos_sequence, evgen, bridge, acq, stage, initPos, frames>>

\* mmc.set_property(z_stage, "UseSequence", "Yes")
UploadUseSequence ==
    /\ pc = "upload_use_sequence"
    /\ useSequence' = "Yes"
    /\ pc' = "upload_fast_off"
    /\ UNCHANGED <<params, num_z_positions, z_idx, num_time_points, z_pos,
                   pos_sequence, evgen, bridge, acq, stagePos, initPos,
                   useFastSequence, stageSequence, frames, locals>>

\* mmc.set_property(z_stage, "UseFastSequence", "No")
UploadFastOff ==
    /\ pc = "upload_fast_off"
    /\ useFastSequence' = "No"
    /\ pc' = "upload_load"
    /\ UNCHANGED <<params, num_z_positions, z_idx, num_time_points, z_pos,
                   pos_sequence, evgen, bridge, acq, stagePos, initPos,
                   useSequence, stageSequence, frames, locals>>

\* mmc.load_stage_sequence(z_stage, positionJ)
UploadLoad ==
    /\ pc = "upload_load"
    /\ stageSequence' = fn_pos_sequence
    /\ pc' = "upload_arm"
    /\ UNCHANGED <<params, num_z_positions, z_idx, num_time_points, z_pos,
                   pos_sequence, evgen, bridge, acq, stagePos, initPos,
                   useSequence, useFastSequence, frames, locals>>

\* mmc.set_property(z_stage, "UseFastSequence", "Armed")
UploadArm ==
    /\ pc = "upload_arm"
    /\ useFastSequence' = "Armed"
    /\ pc' = "upload_return"
    /\ UNCHANGED <<params, num_z_positions, z_idx, num_time_points, z_pos,
                   pos_sequence, evgen, bridge, acq, stagePos, initPos,
                   useSequence, stageSequence, frames, locals>>

\* return z_pos, pos_sequence, assigned by the caller:
\* z_pos, pos_sequence = upload_piezo_sequence(...)
\* num_z_positions = len(pos_sequence)
UploadReturn ==
    /\ pc = "upload_return"
    /\ z_pos' = fn_z_pos
    /\ pos_sequence' = fn_pos_sequence
    /\ num_z_positions' = Len(fn_pos_sequence)
    /\ pc' = "move"
    /\ UNCHANGED <<params, z_idx, num_time_points, evgen, bridge, acq, stage,
                   initPos, frames, locals>>

\* mmc.set_position(z_stage, pos_sequence[0]); indexing an empty sequence raises
MoveToFirst ==
    /\ pc = "move"
    /\ IF Len(pos_sequence) = 0
       THEN pc' = "faulted" /\ UNCHANGED stagePos
       ELSE pc' = "events" /\ stagePos' = pos_sequence[1]
    /\ UNCHANGED <<params, num_z_positions, z_idx, num_time_points, z_pos,
                   pos_sequence, evgen, bridge, acq, initPos, useSequence,
                   useFastSequence, stageSequence, frames,
                   locals>>

\* events = []; z_idx_ = z_idx.copy()
InitEvents ==
    /\ pc = "events"
    /\ events' = <<>>
    /\ z_idx_' = z_idx
    /\ i' = 0
    /\ pc' = "loop"
    /\ UNCHANGED <<params, num_z_positions, z_idx, num_time_points, z_pos,
                   pos_sequence, bridge, acq, stage, initPos, frames,
                   locals>>

\* one pass of "for i in range(num_time_points)": the inner loop, then the reverse
LoopStep ==
    /\ pc = "loop"
    /\ i < num_time_points
    /\ events' = events \o EventBlock(i, z_idx_)
    /\ z_idx_' = Reverse(z_idx_)
    /\ i' = i + 1
    /\ UNCHANGED <<pc, params, num_z_positions, z_idx, num_time_points, z_pos,
                   pos_sequence, bridge, acq, stage, initPos, frames,
                   locals>>

\* range(num_time_points) is exhausted
LoopDone ==
    /\ pc = "loop"
    /\ i >= num_time_points
    /\ pc' = "acq_enter"
    /\ UNCHANGED <<params, num_z_positions, z_idx, num_time_points, z_pos,
                   pos_sequence, evgen, bridge, acq, stage, initPos, frames,
                   locals>>

\* with Acquisition(directory=path, name=name) as acq:
AcqEnter ==
    /\ pc = "acq_enter"
    /\ acq' = "open"
    /\ pc' = "acquire"
    /\ UNCHANGED <<params, num_z_positions, z_idx, num_time_points, z_pos,
                   pos_sequence, evgen, bridge, stage, initPos, frames,
                   locals>>

\* acq.acquire(events): one frame per event, in event order, each trigger
\* advancing the stage through the uploaded sequence
Acquire ==
    /\ pc = "acquire"
    /\ frames' = Playback(stageSequence, Len(events))
    /\ stagePos' = IF Len(events) > 0 THEN frames'[Len(events)] ELSE stagePos
    /\ pc' = "acq_exit"
    /\ UNCHANGED <<params, num_z_positions, z_idx, num_time_points, z_pos,
                   pos_sequence, evgen, bridge, acq, initPos, useSequence,
                   useFastSequence, stageSequence,
                   locals>>

\* leaving the with block
AcqExit ==
    /\ pc = "acq_exit"
    /\ acq' = "closed"
    /\ pc' = "reset"
    /\ UNCHANGED <<params, num_z_positions, z_idx, num_time_points, z_pos,
                   pos_sequence, evgen, bridge, stage, initPos, frames,
                   locals>>

\* Reset cell: mmc.set_property(z_stage, "UseFastSequence", "No")
ResetFastSequence ==
    /\ pc = "reset"
    /\ useFastSequence' = "No"
    /\ pc' = "reset_use_sequence"
    /\ UNCHANGED <<params, num_z_positions, z_idx, num_time_points, z_pos,
                   pos_sequence, evgen, bridge, acq, stagePos, initPos,
                   useSequence, stageSequence, frames, locals>>

\* Reset cell: mmc.set_property(z_stage, "UseSequence", "No")
ResetUseSequence ==
    /\ pc = "reset_use_sequence"
    /\ useSequence' = "No"
    /\ pc' = "move_back"
    /\ UNCHANGED <<params, num_z_positions, z_idx, num_time_points, z_pos,
                   pos_sequence, evgen, bridge, acq, stagePos, initPos,
                   useFastSequence, stageSequence, frames, locals>>

\* mmc.set_position(z_stage, z_pos)
MoveBack ==
    /\ pc = "move_back"
    /\ stagePos' = z_pos
    /\ pc' = "close"
    /\ UNCHANGED <<params, num_z_positions, z_idx, num_time_points, z_pos,
                   pos_sequence, evgen, bridge, acq, initPos, useSequence,
                   useFastSequence, stageSequence, frames,
                   locals>>

\* bridge.close()
Close ==
    /\ pc = "close"
    /\ bridge' = "closed"
    /\ pc' = "done"
    /\ UNCHANGED <<params, num_z_positions, z_idx, num_time_points, z_pos,
                   pos_sequence, evgen, acq, stage, initPos, frames,
                   locals>>

\* The places where the run calls the bridge or the engine.
CallSites == {"construct", "camera", "upload", "upload_use_sequence",
              "upload_fast_off", "upload_load", "upload_arm", "move",
              "acq_enter", "acquire", "acq_exit", "reset",
              "reset_use_sequence", "move_back", "close"}

\* A bridge or engine call raises: nothing catches it, the run stops there
\* with whatever the calls before it have done.
\* An exception inside the with block leaves the block through __exit__.
\* In the first cell the call that raises is Bridge() itself (no session) or
\* one of the two calls after it (the session is open).
\* acq.acquire(events) may raise after any number of frames were captured.
Fault ==
    /\ pc \in CallSites
    /\ pc' = "faulted"
    /\ acq' = IF acq = "open" THEN "closed" ELSE acq
    /\ bridge' \in IF pc = "construct" THEN {"none", "open"} ELSE {bridge}
    /\ IF pc = "acquire"
       THEN \E n \in 0..Len(events) :
               /\ frames' = Playback(stageSequence, n)
               /\ stagePos' = IF n > 0 THEN frames'[n] ELSE stagePos
       ELSE UNCHANGED <<frames, stagePos>>
    /\ UNCHANGED <<params, num_z_positions, z_idx, num_time_points, z_pos,
                   pos_sequence, evgen, initPos, useSequence, useFastSequence,
                   stageSequence, locals>>

Next ==
    \/ ConstructBridge
    \/ SetParameters
    \/ SetupCamera
    \/ UploadCompute
    \/ UploadUseSequence
    \/ UploadFastOff
    \/ UploadLoad
    \/ UploadArm
    \/ UploadReturn
    \/ MoveToFirst
    \/ InitEvents
    \/ LoopStep
    \/ LoopDone
    \/ AcqEnter
    \/ Acquire
    \/ AcqExit
    \/ ResetFastSequence
    \/ ResetUseSequence
    \/ MoveBack
    \/ Close
    \/ Fault

Spec == Init /\ [][Next]_vars

----------------------------------------------------------------------------
(* The "Generate events" cell on its own: entered with any z-index list    *)
(* and any number of time points.                                          *)
ZLists == UNION {[1..n -> 0..MaxZValue] : n \in 0..MaxZLen}

EvInit ==
    /\ pc = "events"
    /\ z_idx \in ZLists
    /\ num_time_points \in -1..MaxTimePoints
    /\ start_end_pos = 0
    /\ mid_pos = 0
    /\ step_size = 1
    /\ duration = 0
    /\ framerate = 1
    /\ relative = FALSE
    /\ initPos = 0
    /\ stagePos = 0
    /\ num_z_positions = 2
    /\ z_pos = 0
    /\ pos_sequence = <<0, 0>>
    /\ events = Unset
    /\ z_idx_ = Unset
    /\ i = 0
    /\ bridge = "open"
    /\ acq = "none"
    /\ useSequence = "Yes"
    /\ useFastSequence = "Armed"
    /\ stageSequence = <<0, 0>>
    /\ frames = Unset
    /\ fn_z_pos = 0
    /\ fn_pos_sequence = <<0, 0>>

EvNext ==
    \/ InitEvents
    \/ LoopStep
    \/ LoopDone

EvSpec == EvInit /\ [][EvNext]_vars


----------------------------------------------------------------------------
(* Vocabulary of the properties.                                           *)

\* the cells after upload_piezo_sequence has returned
Uploaded == pc \in {"move", "events", "loop", "acq_enter", "acquire",
                    "acq_exit", "reset", "reset_use_sequence", "move_back",
                    "close", "done"}

\* the cells after acq.acquire(events) has returned
Acquired == pc \in {"acq_exit", "reset", "reset_use_sequence", "move_back",
                    "close", "done"}

\* start_end_pos < mid_pos and step_size > 0 evenly divides mid_pos - start_end_pos
EvenSteps ==
    /\ start_end_pos < mid_pos
    /\ step_size > 0
    /\ (mid_pos - start_end_pos) % step_size = 0

\* N = (mid_pos - start_end_pos) / step_size + 1
N == (mid_pos - start_end_pos) \div step_size + 1

\* the sequence before the relative offset: z_pos is the offset that was added
Unshifted == [k \in 1..Len(pos_sequence) |-> pos_sequence[k] - z_pos]

NotebookParameters ==
    /\ start_end_pos = NotebookStartEndPos
    /\ mid_pos = NotebookMidPos
    /\ step_size = NotebookStepSize

Dist(a, b) == IF a < b THEN b - a ELSE a - b

----------------------------------------------------------------------------
\* C1 (as claimed): with even steps the sequence before the offset is N
\* ascending values from start_end_pos to mid_pos followed by N-1 descending
\* values from mid_pos - step_size to start_end_pos, 2N-1 values in all.
C1_SingleTurnLength ==
    (Uploaded /\ EvenSteps) =>
        /\ Len(pos_sequence) = 2 * N - 1
        /\ \A k \in 1..N : Unshifted[k] = start_end_pos + (k - 1) * step_size
        /\ \A k \in 1..(N - 1) : Unshifted[N + k] = mid_pos - k * step_size

\* C1 (amended): with even steps the sequence before the offset is N
\* ascending values from start_end_pos to mid_pos followed by N descending
\* values from mid_pos to start_end_pos, 2N values in all; with the
\* notebook's parameters 21 ascending, 21 descending (2.5 down to -2.5),
\* length 42.
C1_TriangleLength ==
    (Uploaded /\ EvenSteps) =>
        /\ Len(pos_sequence) = 2 * N
        /\ \A k \in 1..N : Unshifted[k] = start_end_pos + (k - 1) * step_size
        /\ \A k \in 1..N : Unshifted[N + k] = mid_pos - (k - 1) * step_size
        /\ NotebookParameters =>
              /\ N = 21
              /\ Len(pos_sequence) = 42
              /\ Unshifted[21] = 10 /\ Unshifted[22] = 10 /\ Unshifted[42] = -10

C1_Witness ==
    /\ pc = "move"
    /\ NotebookParameters
    /\ Len(pos_sequence) = 42

\* C2 (as claimed): with even steps the sequence is strictly increasing up
\* to a turning point, strictly decreasing after it, and mid_pos (plus the
\* offset) occurs exactly once.
C2_SingleTurningPoint ==
    (Uploaded /\ EvenSteps) =>
        /\ \E t \in 1..Len(pos_sequence) :
              /\ \A k \in 1..(t - 1) : pos_sequence[k] < pos_sequence[k + 1]
              /\ \A k \in t..(Len(pos_sequence) - 1) :
                    pos_sequence[k] > pos_sequence[k + 1]
        /\ Cardinality({k \in 1..Len(pos_sequence) :
                           pos_sequence[k] = mid_pos + z_pos}) = 1

\* C2 (amended): with even steps the first N values are strictly increasing,
\* the last N values are strictly decreasing, and mid_pos (plus the offset)
\* occurs exactly twice: as the last value of the ascending run and the
\* first value of the descending run.
C2_MonotonicHalves ==
    (Uploaded /\ EvenSteps) =>
        /\ Len(pos_sequence) = 2 * N
        /\ \A k \in 1..(N - 1) : pos_sequence[k] < pos_sequence[k + 1]
        /\ \A k \in (N + 1)..(2 * N - 1) : pos_sequence[k] > pos_sequence[k + 1]
        /\ {k \in 1..Len(pos_sequence) : pos_sequence[k] = mid_pos + z_pos}
              = {N, N + 1}

C2_Witness ==
    /\ pc = "move"
    /\ EvenSteps
    /\ N >= 3
    /\ relative
    /\ z_pos # 0
    /\ pos_sequence[N] = pos_sequence[N + 1]

\* C5: the sequence returned in relative mode is the absolute-mode sequence
\* of the same parameters plus, element by element, the position the stage
\* reported during the call; the lengths are equal.  In absolute mode the
\* returned sequence is the absolute-mode sequence itself.
C5_RelativeIsAbsolutePlusOffset ==
    Uploaded =>
        LET abs == PosSequence(start_end_pos, mid_pos, step_size)
            p == IF relative THEN initPos ELSE 0
        IN  /\ Len(pos_sequence) = Len(abs)
            /\ \A k \in 1..Len(abs) : pos_sequence[k] = abs[k] + p

C5_Witness ==
    /\ pc = "move"
    /\ relative
    /\ initPos # 0
    /\ Len(pos_sequence) >= 4

\* C7: with even steps, two cyclically adjacent positions of the uploaded
\* sequence (the last followed by the first included) differ by at most
\* step_size, and so do the stage positions of two consecutive frames.
C7_NoLargeJump ==
    /\ (Uploaded /\ EvenSteps) =>
          \A k \in 1..Len(pos_sequence) :
              Dist(pos_sequence[k],
                   pos_sequence[(k % Len(pos_sequence)) + 1]) <= step_size
    /\ (Acquired /\ EvenSteps) =>
          \A k \in 1..(Len(frames) - 1) :
              Dist(frames[k], frames[k + 1]) <= step_size

C7_Witness ==
    /\ Acquired
    /\ EvenSteps
    /\ N >= 3
    /\ Len(frames) > Len(pos_sequence)

\* C10: with even steps and frame k captured at pos_sequence[k mod len],
\* the z label j of every event is a valid index into the uploaded sequence
\* and the stage position of its frame is offset + start_end_pos + j * step_size.
C10_LabelMatchesPosition ==
    (Acquired /\ EvenSteps) =>
        /\ Len(frames) = Len(events)
        /\ \A k \in 1..Len(events) :
              LET j == events[k].axes.z
              IN  /\ j \in 0..(Len(pos_sequence) - 1)
                  /\ frames[k] = z_pos + start_end_pos + j * step_size

C10_Witness ==
    /\ Acquired
    /\ EvenSteps
    /\ N >= 2
    /\ num_time_points >= 3
    /\ Len(events) > Len(pos_sequence)

----------------------------------------------------------------------------
\* C8: in every run, whether every call succeeds or a fault propagates
\* uncaught, the session opened by Bridge() is closed once the run has ended,
\* and nothing runs after the close.
C8_ClosedInEveryRun ==
    /\ (pc \in {"done", "faulted"} /\ bridge # "none") => bridge = "closed"
    /\ bridge = "closed" => pc = "done"

\* C9: z_pos is the stage position at the time of the upload call, and after
\* a normally completed run the stage is back at the position it had before
\* the run, in relative and in absolute mode.
C9_BackToInitialPosition ==
    /\ Uploaded => z_pos = initPos
    /\ pc \in {"close", "done"} => stagePos = initPos

----------------------------------------------------------------------------
(* Claims about the "Generate events" cell (EvSpec).                       *)

LoopEntered == pc \in {"loop", "acq_enter"}

\* C3: for num_time_points >= 0 the event list is num_time_points blocks of
\* len(z_idx) events, block t holding time = t only, with the z values of
\* z_idx in order when t is even and in reversed order when t is odd; while
\* the loop runs the same holds of the i blocks generated so far.
C3_AlternatingBlocks ==
    (LoopEntered /\ num_time_points >= 0) =>
        LET L == Len(z_idx)
            n == IF pc = "loop" THEN i ELSE num_time_points
        IN  /\ Len(events) = n * L
            /\ \A t \in 0..(n - 1) : \A k \in 1..L :
                  events[t * L + k] =
                      [axes |-> [time |-> t,
                                 z |-> IF t % 2 = 0 THEN z_idx[k]
                                                    ELSE z_idx[L + 1 - k]]]

C3_Witness ==
    /\ pc = "acq_enter"
    /\ num_time_points = 3
    /\ z_idx = <<0, 1, 2>>
    /\ Len(events) = 9
    /\ events[4].axes = [time |-> 1, z |-> 2]

\* C4: for num_time_points >= 0, when the loop has finished the event list
\* has num_time_points * len(z_idx) events.
C4_EventCount ==
    (pc = "acq_enter" /\ num_time_points >= 0) =>
        Len(events) = num_time_points * Len(z_idx)

C4_Witness ==
    /\ pc = "acq_enter"
    /\ num_time_points >= 2
    /\ Len(z_idx) >= 2
    /\ Len(events) = num_time_points * Len(z_idx)

\* C6: after an even number of completed time points z_idx_ equals z_idx,
\* after an odd number it is the exact reverse of z_idx, and no step of the
\* cell changes z_idx.
C6_ReverseTwiceRestores ==
    /\ [](LoopEntered =>
            /\ Len(z_idx_) = Len(z_idx)
            /\ \A k \in 1..Len(z_idx) :
                  z_idx_[k] = IF i % 2 = 0 THEN z_idx[k]
                                           ELSE z_idx[Len(z_idx) + 1 - k])
    /\ [][z_idx' = z_idx]_vars

C6_Witness ==
    /\ pc = "loop"
    /\ i = 2
    /\ Len(z_idx) >= 2
    /\ z_idx[1] # z_idx[Len(z_idx)]
    /\ z_idx_ = z_idx

============================================================================
